---- MODULE Spec2Model ----
(***************************************************************************)
(* Weighted graph, Dijkstra's algorithm with a binary heap and path        *)
(* reconstruction (src/src/task3.py).                                       *)
(*                                                                         *)
(* A graph is built by add_vertex / add_edge calls (or by                  *)
(* create_sample_graph), then dijkstra runs on it one loop iteration at a  *)
(* time, then reconstruct_path is applied to the predecessor map returned. *)
(***************************************************************************)
EXTENDS Integers, Sequences, FiniteSets, TLC

\* ---------------------------------------------------------------- bounds
MaxVertex == 3
MaxEdges == 3
MaxWeight == 2
NegWeight == 1
MaxItems == 3
MaxCost == 3
MaxCalories == 2
MaxBudget == 4
MaxListLen == 3
MaxVal == 2

Vertex == 1..MaxVertex
Weight == (0 - NegWeight)..MaxWeight

\* ------------------------------------------------------ program constants
\* Vertex labels of create_sample_graph, in their string order 'A' < ... < 'F'.
A == 1
B == 2
C == 3
D == 4
E == 5
F == 6
\* float('infinity'): larger than every sum of weights the model can form.
Infinity == 1000000
\* Python's None, as a predecessor that is no vertex.
None == 0

VARIABLES graph, call, pc, start_vertex, distances, previous, pq, visited,
          current_distance, current_vertex, i, result,
          order, pushes, first_run,
          items, budget, dp_result,
          nodes, list1, list2, ll_call

vars == <<graph, call, pc, start_vertex, distances, previous, pq, visited,
          current_distance, current_vertex, i, result, order, pushes, first_run,
          items, budget, dp_result, nodes, list1, list2, ll_call>>

\* The state of the other programs of the repository: task6.py and task1.py.
task6_vars == <<items, budget, dp_result>>

\* nodes maps each ListNode to its val and next; list1 and list2 are the heads
\* the caller holds; ll_call records the last call, the node sequences of its
\* arguments before it, and what it returned.
task1_vars == <<nodes, list1, list2, ll_call>>

other_tasks == <<task6_vars, task1_vars>>

\* The locals of dijkstra, with two records of its run: order lists the vertices
\* in the order line 58 adds them to visited, pushes counts the entries put on
\* the queue (line 48 and line 72).
locals == <<start_vertex, distances, previous, pq, visited,
            current_distance, current_vertex, i, order, pushes>>

\* ----------------------------------------------------------------- Graph
\* Graph.__init__: an empty vertex set and an empty defaultdict(list).
Graph == [vertices |-> {}, edges |-> <<>>]

\* defaultdict(list).__getitem__: a missing key is inserted with [].
defaultdict_getitem(edges, key) ==
    IF key \in DOMAIN edges THEN edges ELSE edges @@ (key :> <<>>)

add_vertex(g, vertex) ==
    [g EXCEPT !.vertices = @ \cup {vertex}]

\* Variant without the reverse entry of line 24.
add_edge_oneway(g, from_vertex, to_vertex, weight) ==
    LET e1 == defaultdict_getitem(g.edges, from_vertex)
        e2 == [e1 EXCEPT ![from_vertex] = Append(@, <<to_vertex, weight>>)]
        e3 == defaultdict_getitem(e2, to_vertex)
    IN  [vertices |-> g.vertices \cup {from_vertex, to_vertex}, edges |-> e3]

\* Lines 18-24.
add_edge(g, from_vertex, to_vertex, weight) ==
    LET e1 == defaultdict_getitem(g.edges, from_vertex)
        e2 == [e1 EXCEPT ![from_vertex] = Append(@, <<to_vertex, weight>>)]
        e3 == defaultdict_getitem(e2, to_vertex)
        e4 == [e3 EXCEPT ![to_vertex] = Append(@, <<from_vertex, weight>>)]
    IN  [vertices |-> g.vertices \cup {from_vertex, to_vertex}, edges |-> e4]

\* get_neighbors returns self.edges[vertex]; the lookup itself may insert the key.
get_neighbors(g, vertex) == defaultdict_getitem(g.edges, vertex)[vertex]

after_get_neighbors(g, vertex) ==
    [g EXCEPT !.edges = defaultdict_getitem(@, vertex)]

\* The edge list of create_sample_graph.
sample_edges ==
    << <<A, B, 4>>, <<A, C, 2>>, <<B, C, 1>>, <<B, D, 5>>, <<C, D, 8>>,
       <<C, E, 10>>, <<D, E, 2>>, <<D, F, 6>>, <<E, F, 3>> >>

RECURSIVE add_edges(_, _, _)
add_edges(g, edges, k) ==
    IF k > Len(edges) THEN g
    ELSE add_edges(add_edge(g, edges[k][1], edges[k][2], edges[k][3]), edges, k + 1)

create_sample_graph == add_edges(Graph, sample_edges, 1)

\* Number of add_edge calls that built g: each appends two adjacency entries.
RECURSIVE total_entries(_, _)
total_entries(edges, keys) ==
    IF keys = {} THEN 0
    ELSE LET k == CHOOSE x \in keys : TRUE
         IN  Len(edges[k]) + total_entries(edges, keys \ {k})

num_edges(g) == total_entries(g.edges, DOMAIN g.edges) \div 2

\* ------------------------------------------------------------------ heapq
\* Variant: the reversed order (a max-heap).
tuple_greater(a, b) == a[1] > b[1] \/ (a[1] = b[1] /\ a[2] > b[2])

\* Python's tuple order on (distance, vertex).
tuple_less(a, b) == a[1] < b[1] \/ (a[1] = b[1] /\ a[2] < b[2])

\* Variant: the push of line 72 left out.
heappush_drop(heap, item) == heap

\* Variant: list.append in place of heappush.
heappush_append(heap, item) == Append(heap, item)

\* The heap is kept as the sorted sequence of its entries: heappop removes and
\* returns the least entry, heappush adds one.
heappush(heap, item) ==
    LET k == Cardinality({j \in 1..Len(heap) : ~tuple_less(item, heap[j])})
    IN  SubSeq(heap, 1, k) \o <<item>> \o SubSeq(heap, k + 1, Len(heap))

heappop_item(heap) == Head(heap)

heappop_rest(heap) == Tail(heap)

\* --------------------------------------------------------------- dijkstra
\* Lines 43-45: the two dict comprehensions, then distances[start_vertex] = 0.
\* Variant: line 45 left out, the source gets no distance of its own.
init_distances_no_source(g, start) ==
    [vertex \in g.vertices |-> Infinity]

\* Lines 43 and 45.
init_distances(g, start) ==
    (start :> 0) @@ [vertex \in g.vertices |-> Infinity]

init_previous(g) == [vertex \in g.vertices |-> None]

\* Variant: the visited set kept from the call before (a module-level set).
kept_visited(old) == old

\* Line 49: visited = set(), whatever an earlier call left.
new_visited(old) == {}

\* Variant: the test of line 55 left out.
already_processed_never(vis, vertex) == FALSE

\* Line 55.
already_processed(vis, vertex) == vertex \in vis

\* Variant: the test of line 62 left out.
skip_neighbor_never(vis, neighbor) == FALSE

\* Line 62: a neighbor that was already processed is skipped.
skip_neighbor(vis, neighbor) == neighbor \in vis

\* Variant: the edge weight alone.
new_distance_weight_only(cur_distance, weight) == weight

\* Line 66.
new_distance(cur_distance, weight) == cur_distance + weight

\* Line 69.
shorter(new_dist, dist) == new_dist < dist

\* Variant: the two vertices of line 71 exchanged.
set_previous_swapped(prev, neighbor, cur_vertex) ==
    [prev EXCEPT ![cur_vertex] = neighbor]

\* Line 71.
set_previous(prev, neighbor, cur_vertex) ==
    [prev EXCEPT ![neighbor] = cur_vertex]

\* ------------------------------------------------------- reconstruct_path
\* Lines 79-84: the while loop. A chain of distinct vertices has at most
\* Cardinality(DOMAIN prev) members, so a longer walk is inside a cycle and the
\* loop never ends; a vertex without an entry raises KeyError.
RECURSIVE walk_back(_, _, _)
walk_back(prev, current, path) ==
    IF current = None THEN [ret |-> "path", path |-> path]
    ELSE IF current \notin DOMAIN prev THEN [ret |-> "KeyError", path |-> <<>>]
    ELSE IF Len(path) > Cardinality(DOMAIN prev) THEN [ret |-> "diverges", path |-> <<>>]
    ELSE walk_back(prev, prev[current], Append(path, current))

reverse(path) == [k \in 1..Len(path) |-> path[Len(path) + 1 - k]]

\* Variant: the test of lines 89-90 left out.
reconstruct_path_unchecked(prev, start, end) ==
    LET w == walk_back(prev, end, <<>>)
    IN  IF w.ret # "path" THEN w
        ELSE [ret |-> "path", path |-> reverse(w.path)]

\* Variant: path.reverse() of line 86 left out.
reconstruct_path_unreversed(prev, start, end) ==
    LET w == walk_back(prev, end, <<>>)
    IN  IF w.ret # "path" THEN w
        ELSE IF w.path = <<>> THEN [ret |-> "IndexError", path |-> <<>>]
        ELSE IF w.path[1] # start THEN [ret |-> "None", path |-> <<>>]
        ELSE [ret |-> "path", path |-> w.path]

\* Lines 77-92; path[0] of an empty list would raise IndexError.
reconstruct_path(prev, start, end) ==
    LET w == walk_back(prev, end, <<>>)
        path == reverse(w.path)
    IN  IF w.ret # "path" THEN w
        ELSE IF path = <<>> THEN [ret |-> "IndexError", path |-> <<>>]
        ELSE IF path[1] # start THEN [ret |-> "None", path |-> <<>>]
        ELSE [ret |-> "path", path |-> path]

\* ------------------------------------------------------------------ state
no_result == [start |-> None, end |-> None, ret |-> "unset", path |-> <<>>]

\* The maps returned by the first of two dijkstra calls on one graph object.
no_first_run == [ret |-> "unset", distances |-> <<>>, previous |-> <<>>]

no_dp_result ==
    [ret |-> "unset", selected_items |-> <<>>, total_cost |-> 0, total_calories |-> 0]

\* No call of task6.py has been made.
task6_idle ==
    /\ items = <<>>
    /\ budget = 0
    /\ dp_result = no_dp_result

no_ll_call == [op |-> "none", in1 |-> <<>>, in2 |-> <<>>, ret |-> "unset", out |-> None]

\* No list of task1.py has been built.
task1_idle ==
    /\ nodes = <<>>
    /\ list1 = None
    /\ list2 = None
    /\ ll_call = no_ll_call

\* The state of task3.py after Graph().
task3_init ==
    /\ graph = Graph
    /\ call = <<"Graph">>
    /\ pc = "idle"
    /\ start_vertex = None
    /\ distances = <<>>
    /\ previous = <<>>
    /\ pq = <<>>
    /\ visited = {}
    /\ current_distance = 0
    /\ current_vertex = None
    /\ i = 0
    /\ result = no_result
    /\ order = <<>>
    /\ pushes = 0
    /\ first_run = no_first_run

Init ==
    /\ task3_init
    /\ task6_idle
    /\ task1_idle

\* graph.add_vertex(vertex)
AddVertex ==
    /\ pc = "idle"
    /\ \E vertex \in Vertex :
        /\ graph' = add_vertex(graph, vertex)
        /\ call' = <<"add_vertex", vertex>>
    /\ UNCHANGED <<pc, locals, result, first_run>>
    /\ UNCHANGED other_tasks

\* graph.add_edge(from_vertex, to_vertex, weight)
AddEdge ==
    /\ pc = "idle"
    /\ num_edges(graph) < MaxEdges
    /\ \E from_vertex \in Vertex, to_vertex \in Vertex, weight \in Weight :
        /\ graph' = add_edge(graph, from_vertex, to_vertex, weight)
        /\ call' = <<"add_edge", from_vertex, to_vertex, weight>>
    /\ UNCHANGED <<pc, locals, result, first_run>>
    /\ UNCHANGED other_tasks

\* graph = create_sample_graph()
CreateSampleGraph ==
    /\ pc = "idle"
    /\ call = <<"Graph">>
    /\ graph' = create_sample_graph
    /\ call' = <<"create_sample_graph">>
    /\ UNCHANGED <<pc, locals, result, first_run>>
    /\ UNCHANGED other_tasks

\* Lines 43-49 of dijkstra(graph, start).
dijkstra_entry(start) ==
    /\ start_vertex' = start
    /\ distances' = init_distances(graph, start)
    /\ previous' = init_previous(graph)
    /\ pq' = <<<<0, start>>>>
    /\ visited' = new_visited(visited)
    /\ order' = <<>>
    /\ pushes' = 1
    /\ call' = <<"dijkstra">>
    /\ pc' = "while"
    /\ UNCHANGED <<graph, current_distance, current_vertex, i>>

\* dijkstra(graph, start_vertex) on the graph just built.
DijkstraStart ==
    /\ pc = "idle"
    /\ \E start \in graph.vertices : dijkstra_entry(start)
    /\ UNCHANGED <<result, first_run>>
    /\ UNCHANGED other_tasks

\* dijkstra(graph, start_vertex) once more, on the same graph object and from
\* the same source, after the first call has returned.
DijkstraAgain ==
    /\ pc = "done"
    /\ first_run.ret = "unset"
    /\ first_run' = [ret |-> "set", distances |-> distances, previous |-> previous]
    /\ dijkstra_entry(start_vertex)
    /\ UNCHANGED result
    /\ UNCHANGED other_tasks

\* Lines 51-61: one heappop; a processed vertex is skipped, any other is marked
\* visited and its neighbor list is fetched for the for loop.
Pop ==
    /\ pc = "while"
    /\ pq # <<>>
    /\ LET item == heappop_item(pq) IN
        /\ current_distance' = item[1]
        /\ current_vertex' = item[2]
        /\ pq' = heappop_rest(pq)
        /\ IF already_processed(visited, item[2])
           THEN UNCHANGED <<visited, graph, i, pc, order>>
           ELSE /\ visited' = visited \cup {item[2]}
                /\ order' = Append(order, item[2])
                /\ graph' = after_get_neighbors(graph, item[2])
                /\ i' = 1
                /\ pc' = IF get_neighbors(graph, item[2]) = <<>> THEN "while" ELSE "for"
    /\ UNCHANGED <<call, start_vertex, distances, previous, result, pushes, first_run>>
    /\ UNCHANGED other_tasks

\* Lines 61-72: the body of the for loop for the i-th (neighbor, weight) pair.
Relax ==
    /\ pc = "for"
    /\ LET neighbors == graph.edges[current_vertex]
           neighbor == neighbors[i][1]
           weight == neighbors[i][2]
           new_dist == new_distance(current_distance, weight)
       IN
        /\ IF ~skip_neighbor(visited, neighbor) /\ shorter(new_dist, distances[neighbor])
           THEN /\ distances' = [distances EXCEPT ![neighbor] = new_dist]
                /\ previous' = set_previous(previous, neighbor, current_vertex)
                /\ pq' = heappush(pq, <<new_dist, neighbor>>)
                /\ pushes' = pushes + 1
           ELSE UNCHANGED <<distances, previous, pq, pushes>>
        /\ IF i < Len(neighbors)
           THEN i' = i + 1 /\ pc' = "for"
           ELSE i' = i /\ pc' = "while"
    /\ UNCHANGED <<graph, call, start_vertex, visited, current_distance,
                   current_vertex, result, order, first_run>>
    /\ UNCHANGED other_tasks

\* Line 74: the queue is empty, dijkstra returns (distances, previous).
Return ==
    /\ pc = "while"
    /\ pq = <<>>
    /\ pc' = "done"
    /\ UNCHANGED <<graph, call, locals, result, first_run>>
    /\ UNCHANGED other_tasks

\* reconstruct_path(previous, start, end) on the returned predecessor map.
ReconstructPath ==
    /\ pc = "done"
    /\ \E start \in graph.vertices, end \in graph.vertices :
        result' = [start |-> start, end |-> end] @@ reconstruct_path(previous, start, end)
    /\ UNCHANGED <<graph, call, pc, locals, first_run>>
    /\ UNCHANGED other_tasks

Next ==
    \/ AddVertex
    \/ AddEdge
    \/ CreateSampleGraph
    \/ DijkstraStart
    \/ Pop
    \/ Relax
    \/ Return
    \/ ReconstructPath

Spec == Init /\ [][Next]_vars

\* Two dijkstra calls in a row on one graph, without the path queries.
NextRerun ==
    \/ AddVertex
    \/ AddEdge
    \/ CreateSampleGraph
    \/ DijkstraStart
    \/ Pop
    \/ Relax
    \/ Return
    \/ DijkstraAgain

SpecRerun == Init /\ [][NextRerun]_vars

\* dijkstra(graph, start_vertex) with a source that is not in graph.vertices:
\* lines 43-49 make no test of it.
DijkstraUnknownSource ==
    /\ pc = "idle"
    /\ \E start \in Vertex \ graph.vertices : dijkstra_entry(start)
    /\ UNCHANGED <<result, first_run>>
    /\ UNCHANGED other_tasks

\* The calls of Spec, and dijkstra called with any source, in the graph or not.
NextAnySource ==
    \/ AddVertex
    \/ AddEdge
    \/ CreateSampleGraph
    \/ DijkstraStart
    \/ DijkstraUnknownSource
    \/ Pop
    \/ Relax
    \/ Return
    \/ ReconstructPath

SpecAnySource == Init /\ [][NextAnySource]_vars

\* ----------------------------------------------------- task6.py: knapsack
\* items is the dictionary in insertion order: item k has a cost and calories,
\* and k stands for its name.
Item == [cost : 1..MaxCost, calories : 0..MaxCalories]

ItemLists == UNION {[1..n -> Item] : n \in 0..MaxItems}

max(a, b) == IF a >= b THEN a ELSE b

\* Python indexing of a row of budget + 1 cells: a negative index counts from
\* the end. Cell w of a row is kept at position w + 1.
cell(row, w) == IF w >= 0 THEN row[w + 1] ELSE row[Len(row) + w + 1]

\* Variant: an item whose cost is exactly w does not fit.
fits_strictly(cost, w) == cost < w

\* Line 61.
fits(cost, w) == cost <= w

\* Lines 56-63: row i of the table from row i-1.
dp_row(prev_row, cost, cal, bud) ==
    [k \in 1..(bud + 1) |->
        IF fits(cost, k - 1)
        THEN max(prev_row[k], cell(prev_row, k - 1 - cost) + cal)
        ELSE prev_row[k]]

\* Lines 52-63: the table dp[0..n], row r kept at position r + 1.
RECURSIVE dp_fill(_, _, _, _)
dp_fill(dp, its, bud, r) ==
    IF r > Len(its) THEN dp
    ELSE dp_fill(Append(dp, dp_row(dp[r], its[r].cost, its[r].calories, bud)),
                 its, bud, r + 1)

dp_table(its, bud) == dp_fill(<<[k \in 1..(bud + 1) |-> 0]>>, its, bud, 1)

\* Lines 70-76: the backtracking loop, for r = n down to 1.
RECURSIVE dp_backtrack(_, _, _, _, _, _)
dp_backtrack(dp, its, r, w, selected, cost) ==
    IF r = 0 THEN [selected_items |-> selected, total_cost |-> cost]
    ELSE IF cell(dp[r + 1], w) # cell(dp[r], w)
         THEN dp_backtrack(dp, its, r - 1, w - its[r].cost,
                           Append(selected, r), cost + its[r].cost)
         ELSE dp_backtrack(dp, its, r - 1, w, selected, cost)

\* Lines 34-78.
dynamic_programming(its, bud) ==
    LET dp == dp_table(its, bud)
        n == Len(its)
        back == dp_backtrack(dp, its, n, bud, <<>>, 0)
    IN  [ret |-> "set",
         selected_items |-> back.selected_items,
         total_cost |-> back.total_cost,
         total_calories |-> cell(dp[n + 1], bud)]

\* The state before a call of dynamic_programming(items, budget).
InitKnapsack ==
    /\ task3_init
    /\ items \in ItemLists
    /\ budget \in 0..MaxBudget
    /\ dp_result = no_dp_result
    /\ task1_idle

\* dp_items, dp_cost, dp_calories = dynamic_programming(items, budget)
DynamicProgramming ==
    /\ dp_result' = dynamic_programming(items, budget)
    /\ UNCHANGED <<items, budget>>
    /\ UNCHANGED <<graph, call, pc, locals, result, first_run>>
    /\ UNCHANGED task1_vars

NextKnapsack == DynamicProgramming

SpecKnapsack == InitKnapsack /\ [][NextKnapsack]_vars

\* ------------------------------------------------- task1.py: linked lists
Values == UNION {[1..n -> 0..MaxVal] : n \in 0..MaxListLen}

\* LinkedList.from_list: one ListNode per value, numbered base+1, base+2, ...
\* in list order, each pointing to the next and the last to None.
from_list(values, base) ==
    [k \in (base + 1)..(base + Len(values)) |->
        [val |-> values[k - base],
         next |-> IF k = base + Len(values) THEN None ELSE k + 1]]

head_of(values, base) == IF values = <<>> THEN None ELSE base + 1

\* The nodes met from head along next, as LinkedList.to_list walks them; the
\* walk is cut where it leaves the nodes or has met more nodes than there are.
RECURSIVE node_seq(_, _, _)
node_seq(h, current, seen) ==
    IF current = None \/ current \notin DOMAIN h \/ Len(seen) > Cardinality(DOMAIN h)
    THEN seen
    ELSE node_seq(h, h[current].next, Append(seen, current))

\* Where the walk of node_seq stops: None for a proper list.
RECURSIVE walk_end(_, _, _)
walk_end(h, current, steps) ==
    IF current = None \/ current \notin DOMAIN h \/ steps > Cardinality(DOMAIN h)
    THEN current
    ELSE walk_end(h, h[current].next, steps + 1)

\* ListNode(0): a new node, numbered after every node there is.
new_node(h) == Cardinality(DOMAIN h) + 1

\* Variant: the comparison of line 84 reversed.
goes_after_reversed(next_val, cur_val) == next_val > cur_val

\* Line 84: insert_prev.next.val < current.val.
goes_after(next_val, cur_val) == next_val < cur_val

\* Lines 83-85: the search for the insertion point. A walk longer than the
\* number of nodes is inside a cycle and never ends.
RECURSIVE find_insert_prev(_, _, _, _)
find_insert_prev(h, insert_prev, cur_val, steps) ==
    IF steps > Cardinality(DOMAIN h) THEN None
    ELSE IF h[insert_prev].next # None
            /\ goes_after(h[h[insert_prev].next].val, cur_val)
         THEN find_insert_prev(h, h[insert_prev].next, cur_val, steps + 1)
         ELSE insert_prev

\* Lines 73-92: the while loop. A correct run makes fewer iterations than there
\* are nodes; one that has made more than the square of that never ends.
RECURSIVE sort_loop(_, _, _, _, _)
sort_loop(h, dummy, prev, current, steps) ==
    IF current = None THEN [ret |-> "head", nodes |-> h]
    ELSE IF steps > Cardinality(DOMAIN h) * Cardinality(DOMAIN h)
         THEN [ret |-> "diverges", nodes |-> h]
    ELSE IF h[current].val >= h[prev].val
         THEN sort_loop(h, dummy, current, h[current].next, steps + 1)
    ELSE LET h1 == [h EXCEPT ![prev].next = h[current].next]
             insert_prev == find_insert_prev(h1, dummy, h1[current].val, 0)
         IN  IF insert_prev = None THEN [ret |-> "diverges", nodes |-> h1]
             ELSE LET h2 == [h1 EXCEPT ![current].next = h1[insert_prev].next]
                      h3 == [h2 EXCEPT ![insert_prev].next = current]
                  IN  sort_loop(h3, dummy, prev, h3[prev].next, steps + 1)

\* The nodes without the local dummy node, which nothing refers to after return.
without(h, dummy) == [k \in DOMAIN h \ {dummy} |-> h[k]]

\* Lines 59-94.
insertion_sort_linked_list(h, head) ==
    IF head = None \/ h[head].next = None
    THEN [ret |-> "head", head |-> head, nodes |-> h]
    ELSE LET dummy == new_node(h)
             h0 == h @@ (dummy :> [val |-> 0, next |-> head])
             r == sort_loop(h0, dummy, head, h0[head].next, 0)
         IN  [ret |-> r.ret, head |-> r.nodes[dummy].next, nodes |-> without(r.nodes, dummy)]

\* Variant: on equal values the node of list2 is taken first.
takes_list1_strict(val1, val2) == val1 < val2

\* Line 106.
takes_list1(val1, val2) == val1 <= val2

\* Lines 105-115: the while loop, then the rest of the list that is left.
RECURSIVE merge_loop(_, _, _, _)
merge_loop(h, current, l1, l2) ==
    IF l1 # None /\ l2 # None
    THEN IF takes_list1(h[l1].val, h[l2].val)
         THEN LET h1 == [h EXCEPT ![current].next = l1]
              IN  merge_loop(h1, l1, h1[l1].next, l2)
         ELSE LET h1 == [h EXCEPT ![current].next = l2]
              IN  merge_loop(h1, l2, l1, h1[l2].next)
    ELSE [h EXCEPT ![current].next = IF l1 # None THEN l1 ELSE l2]

\* Lines 97-117.
merge_sorted_lists(h, l1, l2) ==
    LET dummy == new_node(h)
        h0 == h @@ (dummy :> [val |-> 0, next |-> None])
        h1 == merge_loop(h0, dummy, l1, l2)
    IN  [ret |-> "head", head |-> h1[dummy].next, nodes |-> without(h1, dummy)]

\* Two lists built by from_list.
InitLists ==
    /\ task3_init
    /\ task6_idle
    /\ \E v1 \in Values, v2 \in Values :
        /\ nodes = from_list(v1, 0) @@ from_list(v2, Len(v1))
        /\ list1 = head_of(v1, 0)
        /\ list2 = head_of(v2, Len(v1))
    /\ ll_call = no_ll_call

\* ll.head = insertion_sort_linked_list(ll.head), for either list.
InsertionSort ==
    /\ ll_call.op # "merge"
    /\ \E which \in {1, 2} :
        LET head == IF which = 1 THEN list1 ELSE list2
            r == insertion_sort_linked_list(nodes, head)
        IN  /\ nodes' = r.nodes
            /\ list1' = IF which = 1 THEN r.head ELSE list1
            /\ list2' = IF which = 2 THEN r.head ELSE list2
            /\ ll_call' = [op |-> "sort", in1 |-> node_seq(nodes, head, <<>>),
                           in2 |-> <<>>, ret |-> r.ret, out |-> r.head]
    /\ UNCHANGED <<graph, call, pc, locals, result, first_run>>
    /\ UNCHANGED task6_vars

\* merged_head = merge_sorted_lists(ll3.head, ll4.head); the two lists share
\* their nodes with the merged list from here on, and no further call is made.
MergeSortedLists ==
    /\ ll_call.op # "merge"
    /\ LET r == merge_sorted_lists(nodes, list1, list2)
       IN  /\ nodes' = r.nodes
           /\ ll_call' = [op |-> "merge", in1 |-> node_seq(nodes, list1, <<>>),
                          in2 |-> node_seq(nodes, list2, <<>>),
                          ret |-> r.ret, out |-> r.head]
    /\ UNCHANGED <<list1, list2>>
    /\ UNCHANGED <<graph, call, pc, locals, result, first_run>>
    /\ UNCHANGED task6_vars

NextLists ==
    \/ InsertionSort
    \/ MergeSortedLists

SpecLists == InitLists /\ [][NextLists]_vars

\* ============================================================ properties
\* Helpers of the properties: what is computed here is computed from the graph
\* alone, never from the run of dijkstra.

\* The adjacency list stored for u, without the lookup's side effect.
adjacency(g, u) == IF u \in DOMAIN g.edges THEN g.edges[u] ELSE <<>>

non_negative_weights(g) ==
    \A u \in DOMAIN g.edges : \A k \in 1..Len(g.edges[u]) : g.edges[u][k][2] >= 0

\* The vertices joined to the vertices of S by a chain of adjacency entries.
RECURSIVE reachable_set(_, _)
reachable_set(g, S) ==
    LET T == S \cup UNION {{adjacency(g, u)[k][1] : k \in 1..Len(adjacency(g, u))} : u \in S}
    IN  IF T = S THEN S ELSE reachable_set(g, T)

reachable(g, s) == reachable_set(g, {s})

min_of(S) == IF S = {} THEN Infinity ELSE CHOOSE x \in S : \A y \in S : x <= y

\* Brute force: the least total weight over all simple paths from u to target
\* that avoid the vertices of seen, Infinity when there is none.
RECURSIVE brute_force_distance(_, _, _, _)
brute_force_distance(g, u, target, seen) ==
    IF u = target THEN 0
    ELSE LET adj == adjacency(g, u)
             via(k) == brute_force_distance(g, adj[k][1], target, seen \cup {adj[k][1]})
         IN  min_of({adj[k][2] + via(k) :
                        k \in {j \in 1..Len(adj) :
                                  /\ adj[j][1] \notin seen
                                  /\ via(j) < Infinity}})

shortest_distance(g, s, v) == brute_force_distance(g, s, v, {s})

\* The least weight of an adjacency entry of u that names v.
edge_weight(g, u, v) ==
    min_of({adjacency(g, u)[k][2] :
               k \in {j \in 1..Len(adjacency(g, u)) : adjacency(g, u)[j][1] = v}})

RECURSIVE path_weight(_, _)
path_weight(g, path) ==
    IF Len(path) < 2 THEN 0
    ELSE edge_weight(g, path[1], path[2]) + path_weight(g, Tail(path))

returned == pc = "done"

\* C1: with non-negative weights, after dijkstra returns, the distance of every
\* vertex reachable from the source is the least total weight of a path from
\* the source to it, as found by brute-force enumeration of the paths.
C1_ShortestDistances ==
    (returned /\ non_negative_weights(graph)) =>
        \A v \in reachable(graph, start_vertex) :
            distances[v] = shortest_distance(graph, start_vertex, v)

\* A run where the shortest way to a neighbor of the source is not the direct edge.
C1_Witness ==
    /\ returned
    /\ non_negative_weights(graph)
    /\ \E v \in graph.vertices :
        /\ v # start_vertex
        /\ previous[v] \notin {None, start_vertex}
        /\ edge_weight(graph, start_vertex, v) < Infinity
        /\ distances[v] < edge_weight(graph, start_vertex, v)
        /\ distances[v] = shortest_distance(graph, start_vertex, v)

on_sample_from_A ==
    /\ returned
    /\ graph = create_sample_graph
    /\ start_vertex = A

\* C2 as stated: on the sample graph from source A the distances are
\* A=0, B=3, C=2, D=7, E=9, F=12.
C2_SampleDistancesAsStated ==
    on_sample_from_A =>
        distances = (A :> 0) @@ (B :> 3) @@ (C :> 2) @@ (D :> 7) @@ (E :> 9) @@ (F :> 12)

\* C2 amended: on the sample graph from source A the distances are
\* A=0, B=3, C=2, D=8, E=10, F=13.
C2_SampleDistances ==
    on_sample_from_A =>
        distances = (A :> 0) @@ (B :> 3) @@ (C :> 2) @@ (D :> 8) @@ (E :> 10) @@ (F :> 13)

C2_Witness ==
    /\ on_sample_from_A
    /\ distances[F] = 13

asked_A_to_F ==
    /\ on_sample_from_A
    /\ result.ret # "unset"
    /\ result.start = A
    /\ result.end = F

\* C3 as stated: on the sample graph, after dijkstra from A,
\* reconstruct_path(previous, A, F) is [A, C, B, D, F] and the weights along it
\* sum to 12.
C3_SamplePathAsStated ==
    asked_A_to_F =>
        /\ result.ret = "path"
        /\ result.path = <<A, C, B, D, F>>
        /\ path_weight(graph, result.path) = 12

\* C3 amended: on the sample graph, after dijkstra from A,
\* reconstruct_path(previous, A, F) is [A, C, B, D, E, F] and the weights along
\* it sum to 13.
C3_SamplePath ==
    asked_A_to_F =>
        /\ result.ret = "path"
        /\ result.path = <<A, C, B, D, E, F>>
        /\ path_weight(graph, result.path) = 13

C3_Witness ==
    /\ asked_A_to_F
    /\ result.ret = "path"
    /\ Len(result.path) = 6

in_run == pc \in {"while", "for", "done"}

asked == result.ret # "unset"

has_entry(g, u, v, w) ==
    \E k \in 1..Len(adjacency(g, u)) : adjacency(g, u)[k] = <<v, w>>

\* C4: whatever the weights (self-loops on the source and negative weights
\* included), distances[start_vertex] is 0 in every state of a run after its
\* initialization, and in the result.
C4_SourceDistanceZero ==
    in_run => distances[start_vertex] = 0

\* A finished run on a graph with a negative self-loop on the source.
C4_Witness ==
    /\ returned
    /\ \E w \in Weight : w < 0 /\ has_entry(graph, start_vertex, start_vertex, w)
    /\ distances[start_vertex] = 0

\* C5: after dijkstra returns, a vertex not reachable from the source has
\* distance Infinity and predecessor None, and a reachable vertex other than the
\* source has a finite distance and a predecessor.
C5_UnreachableAndReachable ==
    returned =>
        \A v \in graph.vertices :
            IF v \in reachable(graph, start_vertex)
            THEN v # start_vertex => (distances[v] < Infinity /\ previous[v] # None)
            ELSE distances[v] = Infinity /\ previous[v] = None

\* A finished run with an unreachable vertex and a reachable one.
C5_Witness ==
    /\ returned
    /\ \E v \in graph.vertices :
        v \notin reachable(graph, start_vertex) /\ distances[v] = Infinity
    /\ \E v \in reachable(graph, start_vertex) :
        v # start_vertex /\ previous[v] # None

\* C6: on the predecessor map dijkstra returned, reconstruct_path from the
\* source to a vertex that is unreachable raises nothing and returns None,
\* never a partial sequence.
C6_UnreachableGivesNone ==
    (returned /\ asked /\ result.start = start_vertex
        /\ result.end \notin reachable(graph, start_vertex)) =>
        result.ret = "None"

C6_Witness ==
    /\ returned
    /\ asked
    /\ result.start = start_vertex
    /\ result.end \notin reachable(graph, start_vertex)
    /\ result.ret = "None"

\* C7: reconstruct_path(previous, s, s) on the predecessor map of dijkstra from
\* s is the one-element sequence [s], also with a self-loop on s.
C7_SourceToSource ==
    (returned /\ asked /\ result.start = start_vertex /\ result.end = start_vertex) =>
        (result.ret = "path" /\ result.path = <<start_vertex>>)

\* The source carries a self-loop and has neighbors besides.
C7_Witness ==
    /\ returned
    /\ asked
    /\ result.start = start_vertex
    /\ result.end = start_vertex
    /\ \E w \in Weight : has_entry(graph, start_vertex, start_vertex, w)
    /\ reachable(graph, start_vertex) # {start_vertex}
    /\ result.path = <<start_vertex>>

\* C8: with non-negative weights, the path reconstructed from the source to a
\* reachable target starts at the source, ends at the target, each step (u, v)
\* of it is an adjacency entry (v, w) of u with distances[v] = distances[u] + w,
\* and its total weight is distances[target].
C8_PathFollowsDistances ==
    (returned /\ asked /\ non_negative_weights(graph)
        /\ result.start = start_vertex
        /\ result.end \in reachable(graph, start_vertex)) =>
        /\ result.ret = "path"
        /\ result.path # <<>>
        /\ result.path[1] = start_vertex
        /\ result.path[Len(result.path)] = result.end
        /\ \A k \in 1..(Len(result.path) - 1) :
            \E w \in {e[2] : e \in {adjacency(graph, result.path[k])[j] :
                                       j \in 1..Len(adjacency(graph, result.path[k]))}} :
                /\ has_entry(graph, result.path[k], result.path[k + 1], w)
                /\ distances[result.path[k + 1]] = distances[result.path[k]] + w
        /\ path_weight(graph, result.path) = distances[result.end]

\* A path of two steps whose second step starts at a positive distance.
C8_Witness ==
    /\ returned
    /\ asked
    /\ non_negative_weights(graph)
    /\ result.start = start_vertex
    /\ result.ret = "path"
    /\ Len(result.path) = 3
    /\ distances[result.path[2]] > 0
    /\ distances[result.end] > distances[result.path[2]]

count(seq, e) == Cardinality({k \in 1..Len(seq) : seq[k] = e})

mirrored(g) ==
    \A u \in DOMAIN g.edges : \A k \in 1..Len(g.edges[u]) :
        LET v == g.edges[u][k][1]
            w == g.edges[u][k][2]
        IN  /\ u \in g.vertices
            /\ v \in g.vertices
            /\ count(adjacency(g, u), <<v, w>>) = count(adjacency(g, v), <<u, w>>)

last_add_edge_present ==
    call[1] = "add_edge" =>
        LET u == call[2]
            v == call[3]
            w == call[4]
        IN  /\ {u, v} \subseteq graph.vertices
            /\ count(get_neighbors(graph, u), <<v, w>>) >= 1
            /\ count(get_neighbors(graph, v), <<u, w>>) >= 1

entries_kept ==
    /\ graph.vertices \subseteq graph'.vertices
    /\ \A u \in DOMAIN graph.edges :
        /\ u \in DOMAIN graph'.edges
        /\ Len(graph'.edges[u]) >= Len(graph.edges[u])
        /\ SubSeq(graph'.edges[u], 1, Len(graph.edges[u])) = graph.edges[u]

\* C9: after any sequence of add_vertex and add_edge calls the graph is
\* symmetric: the entries of the add_edge call just made are in both lists and
\* both ends are vertices, no later step removes an entry or a vertex, and
\* (v, w) occurs in u's list as often as (u, w) occurs in v's list.
C9_Symmetric ==
    /\ [](mirrored(graph) /\ last_add_edge_present)
    /\ [][entries_kept]_vars

\* The last call repeated an edge, and the graph has a self-loop too.
C9_Witness ==
    /\ call[1] = "add_edge"
    /\ call[2] # call[3]
    /\ count(adjacency(graph, call[2]), <<call[3], call[4]>>) = 2
    /\ count(adjacency(graph, call[3]), <<call[2], call[4]>>) = 2
    /\ \E u \in graph.vertices, w \in Weight : count(adjacency(graph, u), <<u, w>>) = 2

\* C10: no step of a dijkstra call changes the graph: its vertex set, the key
\* set of its edges mapping and every adjacency list stay as they were.
C10_GraphUnchanged ==
    [][pc' # "idle" => graph' = graph]_vars

\* C11: a second dijkstra call on the same graph object and from the same
\* source, started after the first has returned, returns a distance map and a
\* predecessor map equal to those of the first call, ties on distance included.
C11_SameResultTwice ==
    (returned /\ first_run.ret = "set") =>
        (distances = first_run.distances /\ previous = first_run.previous)

\* Both calls have returned; two vertices besides the source tie on distance.
C11_Witness ==
    /\ returned
    /\ first_run.ret = "set"
    /\ distances = first_run.distances
    /\ \E u \in graph.vertices, v \in graph.vertices :
        /\ u # v
        /\ start_vertex \notin {u, v}
        /\ distances[u] = distances[v]
        /\ distances[u] < Infinity

asked_connected ==
    /\ returned
    /\ asked
    /\ result.end \in reachable(graph, result.start)

is_path_between(g, path, u, v) ==
    /\ path # <<>>
    /\ path[1] = u
    /\ path[Len(path)] = v
    /\ \A k \in 1..(Len(path) - 1) : edge_weight(g, path[k], path[k + 1]) < Infinity

\* C12 as stated: on the predecessor map of dijkstra from s, reconstruct_path
\* returns a path from u to v for any two connected vertices u and v, not only
\* for u = s.
C12_AnyTwoVerticesAsStated ==
    asked_connected =>
        /\ result.ret = "path"
        /\ is_path_between(graph, result.path, result.start, result.end)

\* C12 amended: for two connected vertices u and v, reconstruct_path returns a
\* path from u to v when u is the source s, or when u = v is unreachable from s
\* (the path [v]); for every other connected pair it returns None.
C12_PathOnlyFromSource ==
    asked_connected =>
        IF \/ result.start = start_vertex
           \/ (result.start = result.end
                  /\ result.end \notin reachable(graph, start_vertex))
        THEN /\ result.ret = "path"
             /\ is_path_between(graph, result.path, result.start, result.end)
        ELSE result.ret = "None"

\* Two different connected vertices, the first not the source: None is returned.
C12_Witness ==
    /\ asked_connected
    /\ result.start # start_vertex
    /\ result.start # result.end
    /\ result.end \in reachable(graph, start_vertex)
    /\ result.ret = "None"

RECURSIVE sum_over(_, _)
sum_over(f, S) ==
    IF S = {} THEN 0
    ELSE LET k == CHOOSE x \in S : TRUE IN f[k] + sum_over(f, S \ {k})

costs_of(its) == [k \in 1..Len(its) |-> its[k].cost]

calories_of(its) == [k \in 1..Len(its) |-> its[k].calories]

\* The most calories of any set of items whose costs sum to at most bud.
best_calories(its, bud) ==
    LET affordable == {S \in SUBSET (1..Len(its)) : sum_over(costs_of(its), S) <= bud}
    IN  CHOOSE c \in {sum_over(calories_of(its), S) : S \in affordable} :
            \A S \in affordable : sum_over(calories_of(its), S) <= c

selected_set(r) == {r.selected_items[k] : k \in 1..Len(r.selected_items)}

\* C13: dynamic_programming returns a selection without repeats whose costs sum
\* to total_cost <= budget, whose calories sum to total_calories, and no set of
\* items that fits the budget has more calories.
C13_KnapsackOptimal ==
    dp_result.ret = "set" =>
        /\ Cardinality(selected_set(dp_result)) = Len(dp_result.selected_items)
        /\ selected_set(dp_result) \subseteq 1..Len(items)
        /\ dp_result.total_cost = sum_over(costs_of(items), selected_set(dp_result))
        /\ dp_result.total_cost <= budget
        /\ dp_result.total_calories = sum_over(calories_of(items), selected_set(dp_result))
        /\ dp_result.total_calories = best_calories(items, budget)

\* Not every item fits: one is taken that uses the budget up, one is left out.
C13_Witness ==
    /\ dp_result.ret = "set"
    /\ dp_result.total_cost = budget
    /\ Len(dp_result.selected_items) >= 1
    /\ Len(dp_result.selected_items) < Len(items)
    /\ sum_over(costs_of(items), 1..Len(items)) > budget
    /\ dp_result.total_calories > 0

values_of(h, seq) == [k \in 1..Len(seq) |-> h[seq[k]].val]

non_decreasing(vals) == \A k \in 1..(Len(vals) - 1) : vals[k] <= vals[k + 1]

range(seq) == {seq[k] : k \in 1..Len(seq)}

\* The list that starts at head is a proper list: the walk ends at None.
proper_list(h, head) == walk_end(h, head, 0) = None

\* C14: insertion_sort_linked_list returns the head of a proper list (the last
\* next is None) whose values are in non-decreasing order and whose nodes are
\* exactly the nodes of the input list, each once.
C14_SortedSameNodes ==
    ll_call.op = "sort" =>
        LET out == node_seq(nodes, ll_call.out, <<>>) IN
        /\ ll_call.ret = "head"
        /\ proper_list(nodes, ll_call.out)
        /\ non_decreasing(values_of(nodes, out))
        /\ Len(out) = Len(ll_call.in1)
        /\ range(out) = range(ll_call.in1)

\* A list of three nodes given in decreasing order has been sorted.
C14_Witness ==
    /\ ll_call.op = "sort"
    /\ Len(ll_call.in1) = 3
    /\ nodes[ll_call.in1[1]].val > nodes[ll_call.in1[2]].val
    /\ nodes[ll_call.in1[2]].val > nodes[ll_call.in1[3]].val
    /\ ll_call.out = ll_call.in1[3]

position(seq, x) == CHOOSE k \in 1..Len(seq) : seq[k] = x

merged_sorted_inputs ==
    /\ ll_call.op = "merge"
    /\ non_decreasing(values_of(nodes, ll_call.in1))
    /\ non_decreasing(values_of(nodes, ll_call.in2))

\* C15: for two lists that are each in non-decreasing order (either may be
\* empty), merge_sorted_lists returns a proper list in non-decreasing order
\* that holds every node of both lists exactly once, a node of list1 before
\* every node of list2 of equal value.
C15_MergedSortedStable ==
    merged_sorted_inputs =>
        LET out == node_seq(nodes, ll_call.out, <<>>) IN
        /\ proper_list(nodes, ll_call.out)
        /\ non_decreasing(values_of(nodes, out))
        /\ Len(out) = Len(ll_call.in1) + Len(ll_call.in2)
        /\ range(out) = range(ll_call.in1) \cup range(ll_call.in2)
        /\ \A a \in range(ll_call.in1), b \in range(ll_call.in2) :
            nodes[a].val = nodes[b].val => position(out, a) < position(out, b)

\* Both lists have two nodes or more, they share a value, and the merged list
\* starts with a node of list2.
C15_Witness ==
    /\ merged_sorted_inputs
    /\ Len(ll_call.in1) >= 2
    /\ Len(ll_call.in2) >= 2
    /\ \E a \in range(ll_call.in1), b \in range(ll_call.in2) : nodes[a].val = nodes[b].val
    /\ ll_call.out = ll_call.in2[1]

looping == pc \in {"while", "for"}

adjacency_entries(g) == total_entries(g.edges, DOMAIN g.edges)

RECURSIVE entries_of(_, _)
entries_of(g, S) ==
    IF S = {} THEN 0
    ELSE LET v == CHOOSE x \in S : TRUE
         IN  Len(adjacency(g, v)) + entries_of(g, S \ {v})

\* What is left to do: two for every adjacency entry not yet looked at (those of
\* the unvisited vertices and the rest of the running for loop), one for every
\* queue entry, one for the return.
work_left ==
    2 * entries_of(graph, graph.vertices \ visited)
    + 2 * (IF pc = "for" THEN Len(adjacency(graph, current_vertex)) - i + 1 ELSE 0)
    + Len(pq)
    + (IF pc = "done" THEN 0 ELSE 1)

visits_so_far ==
    /\ pushes <= 1 + adjacency_entries(graph)
    /\ Len(order) = Cardinality(range(order))
    /\ range(order) = visited
    /\ visited \subseteq reachable(graph, start_vertex)
    /\ work_left >= 0
    /\ returned => (pq = <<>> /\ visited = reachable(graph, start_vertex))

\* C16: whatever the weights, the main loop of dijkstra ends: every iteration
\* step lessens the work left, which is never negative; at most 1 + (number of
\* adjacency entries) entries are pushed; every vertex is added to visited at
\* most once, only reachable ones are, and at the return the queue is empty and
\* every reachable vertex has been added.
C16_Terminates ==
    /\ [](in_run => visits_so_far)
    /\ [][looping => work_left' < work_left]_vars

\* A finished run that pushed a stale entry: more pushes than vertices visited.
C16_Witness ==
    /\ returned
    /\ Cardinality(visited) >= 3
    /\ pushes > Cardinality(visited)
    /\ Len(order) = Cardinality(visited)

visited_kept ==
    \A v \in visited :
        /\ v \in visited'
        /\ distances'[v] = distances[v]
        /\ previous'[v] = previous[v]

\* C17: whatever the weights, once a vertex is in visited its distance and its
\* predecessor never change again in the run, it stays in visited, and it is
\* not added a second time.
C17_VisitedIsFinal ==
    /\ [][visited_kept]_vars
    /\ [](in_run => Len(order) = Cardinality(range(order)))

\* A finished run with a negative weight, where going on from a visited vertex
\* u would have lowered the distance of another visited vertex v.
C17_Witness ==
    /\ returned
    /\ \E u \in visited, v \in visited, w \in Weight :
        /\ u # v
        /\ has_entry(graph, u, v, w)
        /\ distances[u] + w < distances[v]

stale_entry_on_top ==
    /\ pc = "while"
    /\ pq # <<>>
    /\ Head(pq)[2] \in visited

\* C18: an iteration that pops an entry for a vertex already in visited changes
\* nothing but the queue: the distance map, the predecessor map and the visited
\* set stay as they are, nothing is pushed, and the loop is back at its test.
C18_StalePopOnlyPops ==
    [][stale_entry_on_top =>
          /\ pq' = Tail(pq)
          /\ distances' = distances
          /\ previous' = previous
          /\ visited' = visited
          /\ order' = order
          /\ pushes' = pushes
          /\ pc' = "while"]_vars

\* Right after such an iteration: the popped distance is an old, larger one.
C18_Witness ==
    /\ pc = "while"
    /\ current_vertex \in visited
    /\ current_distance > distances[current_vertex]
    /\ Len(order) = Cardinality(visited)

\* The order of Python tuples (distance, vertex), stated apart from the heap.
lexicographic_less(a, b) == a[1] < b[1] \/ (a[1] = b[1] /\ a[2] < b[2])

visited_by_distance ==
    \A j \in 1..Len(order), k \in 1..Len(order) :
        j < k => distances[order[j]] <= distances[order[k]]

pops_least ==
    (pc = "while" /\ pq # <<>>) =>
        LET popped == <<current_distance', current_vertex'>> IN
        /\ \E k \in 1..Len(pq) : pq[k] = popped
        /\ \A k \in 1..Len(pq) : ~lexicographic_less(pq[k], popped)
        /\ Len(pq') = Len(pq) - 1

no_nearer_entry_waiting ==
    visited' # visited =>
        \A k \in 1..Len(pq) :
            pq[k][2] \notin visited => pq[k][1] >= current_distance'

\* C19: with non-negative weights the vertices enter visited in non-decreasing
\* order of their final distance; every pop takes the least entry of the queue
\* in the order of (distance, vertex) pairs; and no vertex is marked visited
\* while the queue holds an entry of smaller distance for an unvisited vertex.
C19_VisitedInDistanceOrder ==
    /\ []((in_run /\ non_negative_weights(graph)) => visited_by_distance)
    /\ [][non_negative_weights(graph) => (pops_least /\ no_nearer_entry_waiting)]_vars

\* Three vertices visited, the last two at the same distance, after a pop that
\* left entries in the queue.
C19_Witness ==
    /\ in_run
    /\ non_negative_weights(graph)
    /\ Len(order) = 3
    /\ distances[order[2]] = distances[order[3]]
    /\ order[2] < order[3]
    /\ pq # <<>>

\* C20: whatever the weights, an entry (d, v) about to be popped for a vertex v
\* not yet visited has d = distances[v], and throughout the for loop that
\* follows current_distance = distances[current_vertex]: the candidate
\* current_distance + weight is the one computed from the distance map.
C20_PoppedDistanceIsCurrent ==
    /\ (pc = "while" /\ pq # <<>> /\ Head(pq)[2] \notin visited) =>
           Head(pq)[1] = distances[Head(pq)[2]]
    /\ pc = "for" =>
           /\ current_distance = distances[current_vertex]
           /\ \A k \in 1..Len(adjacency(graph, current_vertex)) :
               new_distance(current_distance, adjacency(graph, current_vertex)[k][2])
                   = distances[current_vertex] + adjacency(graph, current_vertex)[k][2]

\* In the for loop of a vertex for which an older, larger entry is still queued.
C20_Witness ==
    /\ pc = "for"
    /\ current_distance = distances[current_vertex]
    /\ \E k \in 1..Len(pq) :
        pq[k][2] = current_vertex /\ pq[k][1] > current_distance

predecessor(v) == IF v \in DOMAIN previous THEN previous[v] ELSE None

\* The place of vertex v in the order of the visits.
visit_rank(v) == CHOOSE k \in 1..Len(order) : order[k] = v

predecessors_visited_before ==
    \A v \in graph.vertices :
        predecessor(v) # None =>
            /\ predecessor(v) # v
            /\ predecessor(v) \in visited
            /\ v \in visited => visit_rank(predecessor(v)) < visit_rank(v)

\* Following the predecessor links from v for n steps.
RECURSIVE follow(_, _)
follow(v, n) ==
    IF n = 0 \/ v = None THEN v ELSE follow(predecessor(v), n - 1)

no_predecessor_cycle ==
    \A v \in graph.vertices :
        \A n \in 1..Cardinality(graph.vertices) : follow(v, n) # v

\* C21: in every state of a dijkstra run, whatever the weights, a predecessor
\* that is not None is a vertex added to visited strictly before the vertex it
\* is recorded for (or that vertex is still unvisited), so the predecessor
\* links form no cycle; and reconstruct_path, called on the returned map for
\* any start and end vertex of the graph, ends its loop and returns a path or
\* None (it neither loops forever nor raises).
C21_PredecessorsAcyclic ==
    /\ in_run => (predecessors_visited_before /\ no_predecessor_cycle)
    /\ returned =>
           \A end \in graph.vertices : walk_back(previous, end, <<>>).ret = "path"
    /\ asked => result.ret \in {"path", "None"}

\* A path of three vertices returned on a graph with a negative weight, where
\* an edge joins the last vertex of the path straight back to the first.
C21_Witness ==
    /\ returned
    /\ ~non_negative_weights(graph)
    /\ result.ret = "path"
    /\ Len(result.path) = 3
    /\ \E w \in Weight : has_entry(graph, result.path[3], result.path[1], w)

\* A run of dijkstra whose source is not in the vertex set of the graph.
unknown_source == in_run /\ start_vertex \notin graph.vertices

\* C22: dijkstra called with a source outside graph.vertices raises nothing (the
\* source is popped, its neighbor list is empty, the for loop is never entered)
\* and returns a distance map with 0 for the source and infinity for every
\* vertex of the graph, and a predecessor map with None for every vertex of the
\* graph and no entry for the source: the key sets of the two maps differ.
C22_UnknownSourceAccepted ==
    unknown_source =>
        /\ pc # "for"
        /\ pc = "while" =>
               \/ pq = <<<<0, start_vertex>>>> /\ visited = {}
               \/ pq = <<>> /\ visited = {start_vertex}
        /\ returned => (pq = <<>> /\ visited = {start_vertex})
        /\ DOMAIN distances = graph.vertices \cup {start_vertex}
        /\ distances[start_vertex] = 0
        /\ \A v \in graph.vertices : distances[v] = Infinity
        /\ DOMAIN previous = graph.vertices
        /\ \A v \in graph.vertices : previous[v] = None
        /\ start_vertex \notin DOMAIN previous
        /\ DOMAIN distances # DOMAIN previous

\* dijkstra has returned from a source outside a graph that has edges.
C22_Witness ==
    /\ returned
    /\ start_vertex \notin graph.vertices
    /\ num_edges(graph) >= 1
    /\ Cardinality(graph.vertices) >= 2
    /\ Cardinality(DOMAIN distances) = Cardinality(DOMAIN previous) + 1

====
